---- MODULE Spec2Model ----
(***************************************************************************)
(* Membership and subscription consistency engine of goalGG-server.       *)
(*                                                                         *)
(* ClubService and GroupService are the same code up to the renaming       *)
(* club <-> group; an "organization" below is a document of either.  The   *)
(* user-side fields are named after their role:                            *)
(*   joined   = User.clubs / User.groups                                   *)
(*   pending  = User.clubsRequests / User.groupsRequests                   *)
(*   owned    = User.subscriptions.clubIds / groupIds                      *)
(*   maxOrgs  = User.subscriptions.maxClubs / maxGroups                    *)
(* An action is one whole request handled with no other request in        *)
(* flight, except DeleteBegin, DeleteWrite and DeleteAbort, which take      *)
(* deleteClub one awaited write at a time (SpecCrash), and the Begin and    *)
(* Write steps of sendJoinRequest and acceptJoinRequest, which let the      *)
(* calls of several callers overlap (SpecRace).  SpecUpdate adds updateClub *)
(* to the requests; SpecSelfRequest adds a createClub body that names the   *)
(* caller among the pending requests.  SpecUpdateMembers lets updateClub    *)
(* replace the member list, SpecRaceDelete lets deleteClub overlap the      *)
(* join requests, and SpecRaceCreate lets createClub calls and changes of   *)
(* plan overlap on the empty store.                                        *)
(***************************************************************************)
EXTENDS Integers, Sequences, FiniteSets

\* ---------------------------------------------------------------- bounds
\* Users that issue requests.
NumUsers == 3
\* Callers whose requests may overlap.
NumCallers == 2
\* Organization ids that can ever be allocated.
MaxOrgIds == 2
\* Further users that only appear as members of the pre-populated organization.
CrowdSize == 30
\* Users 1..NumSubscribers change their plan.
NumSubscribers == 1
\* Join relations (pending requests and accepted members) the store holds at once.
MaxJoins == 2
\* Organizations created in the runs that include updateClub, and in the runs
\* whose createClub body names the caller.
UpdatedOrgs == 1

Users == 1..NumUsers
Crowd == (NumUsers + 1)..(NumUsers + CrowdSize)
AllUsers == Users \cup Crowd
OrgIds == 1..MaxOrgIds

\* ---------------------------------------------------------------- enums
USER == "user"
SILVER == "silver"
GOLD == "gold"
PREMIUM == "premium"
SUPER_ADMIN == "super_admin"
UserRoleEnum == {USER, SILVER, GOLD, PREMIUM, SUPER_ADMIN}

ACTIVE == "active"
INACTIVE == "inactive"
FULL == "full"
ClubStatusEnum == {ACTIVE, INACTIVE, FULL}

\* The roles a join request is sent with (any string of the request body).
RequestedRoles == {"user", "captain"}

\* An organization id that holds no document.
NoOrg == [exists |-> FALSE]

\* No request is part-way through its writes.
Idle == [op |-> "none"]

\* ------------------------------------------------------- subscription policy
\* UserSchema.pre("save"): limits written when a user document is created.
TierMaxGroups(role) ==
    CASE role = SILVER -> 1
      [] role = GOLD -> 3
      [] role = PREMIUM -> 5
      [] role = SUPER_ADMIN -> 1000
      [] OTHER -> 0

TierMaxPlayers(role) ==
    CASE role = SILVER -> 25
      [] role = GOLD -> 30
      [] role = PREMIUM -> 500
      [] role = SUPER_ADMIN -> 1000
      [] OTHER -> 0

TierCost(role) ==
    CASE role = SILVER -> 15
      [] role = GOLD -> 25
      [] role = PREMIUM -> 40
      [] OTHER -> 0

\* updateUserSubscription: the switch over newRole.
NewMaxClubs(newRole) ==
    CASE newRole = SILVER -> 1
      [] newRole = GOLD -> 3
      [] newRole = PREMIUM -> 5
      [] OTHER -> 0

NewMaxPlayers(newRole) ==
    CASE newRole = SILVER -> 25
      [] newRole = GOLD -> 30
      [] newRole = PREMIUM -> 500
      [] OTHER -> 0

NewCost(newRole) ==
    CASE newRole = SILVER -> 15
      [] newRole = GOLD -> 25
      [] newRole = PREMIUM -> 40
      [] OTHER -> 0

\* A user document as User.create leaves it.
NewUser(role) ==
    [role |-> role,
     joined |-> {},
     pending |-> {},
     owned |-> {},
     maxOrgs |-> TierMaxGroups(role),
     maxPlayers |-> TierMaxPlayers(role),
     cost |-> TierCost(role)]

VARIABLES
    users,   \* user id -> user document
    orgs,    \* organization id -> organization document, or NoOrg
    nextId,  \* the next fresh organization id
    last,    \* the request handled last and its outcome
    flight   \* the request whose writes are under way, or Idle

vars == <<users, orgs, nextId, last, flight>>

\* ---------------------------------------------------------------- helpers
Exists(o) == orgs[o] # NoOrg

\* club.members.some(member => member.userId === userId)
IsMember(org, u) == \E i \in DOMAIN org.members : org.members[i].userId = u

\* club.pendingRequests.some(request => request.userId === userId)
HasPendingRequest(org, u) ==
    \E i \in DOMAIN org.pendingRequests : org.pendingRequests[i].userId = u

\* club.pendingRequests[findIndex(...)].role: the first matching entry.
RequestedRoleOf(org, u) ==
    LET idx == CHOOSE i \in DOMAIN org.pendingRequests :
                  /\ org.pendingRequests[i].userId = u
                  /\ \A j \in 1..(i - 1) : org.pendingRequests[j].userId # u
    IN org.pendingRequests[idx].role

\* $pull: { <array>: { userId } } removes every matching element.
PullUser(s, u) == SelectSeq(s, LAMBDA e : e.userId # u)

MemberIds(org) == {org.members[i].userId : i \in DOMAIN org.members}
PendingIds(org) == {org.pendingRequests[i].userId : i \in DOMAIN org.pendingRequests}

\* x || d
OrDefault(x, d) == IF x = 0 THEN d ELSE x

\* Club.countDocuments({ admin: userId })
ClubCount(u) == Cardinality({o \in OrgIds : Exists(o) /\ orgs[o].admin = u})

\* Pending entries and member entries (the admin's aside) of the requesting
\* users, over all organizations.
JoinCount ==
    LET n(o) == IF Exists(o)
                THEN Len(SelectSeq(orgs[o].pendingRequests, LAMBDA e : e.userId \in Users))
                     + Len(SelectSeq(orgs[o].members,
                              LAMBDA e : e.userId \in Users /\ e.userId # orgs[o].admin))
                ELSE 0
        sum[k \in 0..MaxOrgIds] == IF k = 0 THEN 0 ELSE sum[k - 1] + n(k)
    IN sum[MaxOrgIds]

\* AppError.badRequest / forbidden / notFound, and plain return values.
BadRequest(message) == [kind |-> "BadRequest", message |-> message]
Forbidden(message) == [kind |-> "Forbidden", message |-> message]
NotFound(message) == [kind |-> "NotFound", message |-> message]
ValidationError(message) == [kind |-> "ValidationError", message |-> message]
Returns(value) == [kind |-> value, message |-> ""]

\* What is observed of a request: its operation and outcome; the arguments of a
\* request that changed the store; whether it repeats, with the same
\* organization and caller, the request before it when that one changed the
\* store; and whether it was answered false or null to a caller who is neither
\* the admin nor a captain of the existing organization it names.
Succeeded(kind) == kind \in {"created", "true", "updated"}

\* !isAdmin && !isCaptain, for the requests that test it.
Unauthorized(op, actor, o) ==
    /\ op \in {"acceptJoinRequest", "rejectJoinRequest", "updateClub"}
    /\ o \in OrgIds
    /\ orgs[o] # NoOrg
    /\ orgs[o].admin # actor
    /\ actor \notin orgs[o].captains

Request(op, actor, o, target, outcome, arg) ==
    [op |-> op,
     outcome |-> outcome.kind,
     message |-> outcome.message,
     actor |-> IF Succeeded(outcome.kind) THEN actor ELSE 0,
     org |-> IF Succeeded(outcome.kind) THEN o ELSE 0,
     target |-> IF Succeeded(outcome.kind) THEN target ELSE 0,
     arg |-> IF Succeeded(outcome.kind) THEN arg ELSE 0,
     again |-> /\ Succeeded(last.outcome)
               /\ last.op = op
               /\ last.org = o
               /\ last.actor = actor
               /\ last.target = target,
     denied |-> outcome.kind \in {"false", "null"} /\ Unauthorized(op, actor, o)]

\* Before the first request.
NoRequest ==
    [op |-> "none", outcome |-> "none", message |-> "", actor |-> 0, org |-> 0, target |-> 0,
     arg |-> 0, again |-> FALSE, denied |-> FALSE]

\* ------------------------------------------------------------ createClub
\* Values of maxPlayers in a request body; 0 stands for an omitted field.
RequestedMaxPlayers == {-1, 0, 1, 2, 600}

\* Request bodies of POST /: the body is spread into the created document, so
\* besides maxPlayers it may carry status, captains and pendingRequests.
PlainBodies ==
    {[maxPlayers |-> m, status |-> ACTIVE, captains |-> {}, pendingRequests |-> <<>>] :
        m \in RequestedMaxPlayers}

CraftedBodies ==
    {[maxPlayers |-> 0, status |-> ACTIVE, captains |-> {NumUsers}, pendingRequests |-> <<>>],
     [maxPlayers |-> 0, status |-> ACTIVE, captains |-> {},
      pendingRequests |-> <<[userId |-> NumUsers, role |-> "user"]>>]}

Bodies == PlainBodies \cup CraftedBodies

\* A body whose pendingRequests names the caller.
SelfRequestBody(u) ==
    [maxPlayers |-> 0, status |-> ACTIVE, captains |-> {},
     pendingRequests |-> <<[userId |-> u, role |-> "user"]>>]

\* authorize([SILVER, GOLD, PREMIUM, SUPER_ADMIN]) on the route.
authorize(role) == role \in {SILVER, GOLD, PREMIUM, SUPER_ADMIN}

\* The role test at the head of createClub.
HasSubscriptionPlan(userRole) == userRole \in {SILVER, GOLD, PREMIUM}

\* Variant: the count is compared with > instead of >=.
QuotaReachedOffByOne(u) ==
    LET maxClubs == OrDefault(users[u].maxOrgs, 0)
    IN maxClubs > 0 /\ ClubCount(u) > maxClubs

\* maxClubs > 0 && clubCount >= maxClubs
QuotaReached(u) ==
    LET maxClubs == OrDefault(users[u].maxOrgs, 0)
    IN maxClubs > 0 /\ ClubCount(u) >= maxClubs

\* Variant: a request above the ceiling is kept.
ClampMaxPlayersNoCeiling(requested, subscriptionMax) ==
    IF requested = 0 \/ requested <= 0
    THEN OrDefault(subscriptionMax, 25)
    ELSE requested

\* The two branches that rewrite clubData.maxPlayers.
ClampMaxPlayers(requested, subscriptionMax) ==
    IF requested = 0 \/ requested <= 0
    THEN OrDefault(subscriptionMax, 25)
    ELSE IF requested > OrDefault(subscriptionMax, 25)
         THEN OrDefault(subscriptionMax, 25)
         ELSE requested

\* ClubSchema.maxPlayers: min 2, checked by Club.create.
MinPlayers == 2

CreateOutcome(u, data) ==
    LET userRole == users[u].role
    IN IF ~authorize(userRole)
       THEN Forbidden("Role is not authorized to access this resource")
       ELSE IF ~HasSubscriptionPlan(userRole) 
       THEN Forbidden("Only users with subscription plans can create clubs")
       ELSE IF QuotaReached(u) 
       THEN BadRequest("You have reached the maximum limit of clubs")
       ELSE IF ClampMaxPlayers(data.maxPlayers, users[u].maxPlayers) < MinPlayers
            THEN ValidationError("Club must allow at least 2 players")
       ELSE Returns("created")

\* Variant: the creator is not enrolled as a member.
NewClubNoMember(u, data) ==
    [exists |-> TRUE,
     admin |-> u,
     captains |-> data.captains,
     members |-> <<>>,
     pendingRequests |-> data.pendingRequests,
     maxPlayers |-> ClampMaxPlayers(data.maxPlayers, users[u].maxPlayers),
     status |-> data.status]

\* Club.create({...clubData, admin: userId, members: [{userId, ...}]})
NewClub(u, data) ==
    [exists |-> TRUE,
     admin |-> u,
     captains |-> data.captains,
     members |-> <<[userId |-> u]>>,
     pendingRequests |-> data.pendingRequests,
     maxPlayers |-> ClampMaxPlayers(data.maxPlayers, users[u].maxPlayers),
     status |-> data.status]

CreateClub(u, data) ==
    LET out == CreateOutcome(u, data)
        id == nextId
    IN /\ out.kind = "created" => nextId <= MaxOrgIds
       /\ IF out.kind = "created"
          THEN /\ orgs' = [orgs EXCEPT ![id] = NewClub(u, data)]
               /\ users' = [users EXCEPT ![u].joined = @ \cup {id},
                                         ![u].owned = @ \cup {id}]
               /\ nextId' = nextId + 1
          ELSE UNCHANGED <<orgs, users, nextId>>
       /\ UNCHANGED flight
       /\ last' = Request("createClub", u, id, u, out, data.maxPlayers)

\* ------------------------------------------------------------ deleteClub
\* Variant: a caller who is not the admin is told so.
DeleteOutcomeForbids(o, u) ==
    IF ~Exists(o) THEN Returns("false")
    ELSE IF orgs[o].admin # u THEN Forbidden("Only the admin can delete the club")
    ELSE Returns("true")

\* club missing: false; club.admin is not the caller: false.
DeleteOutcome(o, u) ==
    IF ~Exists(o) THEN Returns("false")
    ELSE IF orgs[o].admin # u THEN Returns("false")
    ELSE Returns("true")

\* Variant: the users with a pending request keep their reference.
DeleteClubKeepsRequests(o, u) ==
    LET out == DeleteOutcome(o, u)
        club == orgs[o]
    IN /\ IF out.kind = "true"
          THEN /\ users' = [x \in DOMAIN users |->
                     [users[x] EXCEPT
                        !.joined = IF x \in MemberIds(club) THEN @ \ {o} ELSE @,
                        !.owned = IF x = u THEN @ \ {o} ELSE @]]
               /\ orgs' = [orgs EXCEPT ![o] = NoOrg]
          ELSE UNCHANGED <<orgs, users>>
       /\ UNCHANGED <<nextId, flight>>
       /\ last' = Request("deleteClub", u, o, u, out, 0)

DeleteClub(o, u) ==
    LET out == DeleteOutcome(o, u)
        club == orgs[o]
    IN /\ IF out.kind = "true"
          THEN /\ users' = [x \in DOMAIN users |->
                     [users[x] EXCEPT
                        !.joined = IF x \in MemberIds(club) THEN @ \ {o} ELSE @,
                        !.pending = IF x \in PendingIds(club) THEN @ \ {o} ELSE @,
                        !.owned = IF x = u THEN @ \ {o} ELSE @]]
               /\ orgs' = [orgs EXCEPT ![o] = NoOrg]
          ELSE UNCHANGED <<orgs, users>>
       /\ UNCHANGED <<nextId, flight>>
       /\ last' = Request("deleteClub", u, o, u, out, 0)

\* ------------------------------------------------------------- leaveClub
\* Variant: the admin test is missing.
LeaveOutcomeAdminLeaves(o, u) ==
    IF ~Exists(o) THEN Returns("false")
    ELSE IF ~IsMember(orgs[o], u) THEN Returns("false")
    ELSE Returns("true")

LeaveOutcome(o, u) ==
    IF ~Exists(o) THEN Returns("false")
    ELSE IF orgs[o].admin = u THEN BadRequest("Club admin cannot leave the club")
    ELSE IF ~IsMember(orgs[o], u) THEN Returns("false")
    ELSE Returns("true")

\* Variant: the user stays in captains.
LeaveClubKeepsCaptain(o, u) ==
    LET out == LeaveOutcome(o, u)
    IN /\ IF out.kind = "true"
          THEN /\ orgs' = [orgs EXCEPT ![o].members = PullUser(@, u)]
               /\ users' = [users EXCEPT ![u].joined = @ \ {o}]
          ELSE UNCHANGED <<orgs, users>>
       /\ UNCHANGED <<nextId, flight>>
       /\ last' = Request("leaveClub", u, o, u, out, 0)

\* Variant: a full club that loses a member is active again.
LeaveClubReopens(o, u) ==
    LET out == LeaveOutcome(o, u)
    IN /\ IF out.kind = "true"
          THEN /\ orgs' = [orgs EXCEPT ![o].members = PullUser(@, u),
                                       ![o].captains = @ \ {u},
                                       ![o].status = IF @ = FULL THEN ACTIVE ELSE @]
               /\ users' = [users EXCEPT ![u].joined = @ \ {o}]
          ELSE UNCHANGED <<orgs, users>>
       /\ UNCHANGED <<nextId, flight>>
       /\ last' = Request("leaveClub", u, o, u, out, 0)

LeaveClub(o, u) ==
    LET out == LeaveOutcome(o, u)
    IN /\ IF out.kind = "true"
          THEN /\ orgs' = [orgs EXCEPT ![o].members = PullUser(@, u),
                                       ![o].captains = @ \ {u}]
               /\ users' = [users EXCEPT ![u].joined = @ \ {o}]
          ELSE UNCHANGED <<orgs, users>>
       /\ UNCHANGED <<nextId, flight>>
       /\ last' = Request("leaveClub", u, o, u, out, 0)

\* -------------------------------------------------------- sendJoinRequest
\* Variant: membership is tested before the status.
SendJoinOutcomeMemberFirst(o, u) ==
    IF ~Exists(o) THEN NotFound("Club not found")
    ELSE IF IsMember(orgs[o], u) THEN Returns("false")
    ELSE IF orgs[o].status = FULL THEN BadRequest("Club is full")
    ELSE IF HasPendingRequest(orgs[o], u) THEN Returns("false")
    ELSE Returns("true")

\* Variant: the pending-request test is missing.
SendJoinOutcomeNoPendingTest(o, u) ==
    IF ~Exists(o) THEN NotFound("Club not found")
    ELSE IF orgs[o].status = FULL THEN BadRequest("Club is full")
    ELSE IF IsMember(orgs[o], u) THEN Returns("false")
    ELSE Returns("true")

SendJoinOutcome(o, u) ==
    IF ~Exists(o) THEN NotFound("Club not found")
    ELSE IF orgs[o].status = FULL THEN BadRequest("Club is full")
    ELSE IF IsMember(orgs[o], u) THEN Returns("false")
    ELSE IF HasPendingRequest(orgs[o], u) THEN Returns("false")
    ELSE Returns("true")

SendJoinRequest(o, u, requestedRole) ==
    LET out == SendJoinOutcome(o, u)
    IN /\ out.kind = "true" => JoinCount < MaxJoins
       /\ IF out.kind = "true"
          THEN /\ orgs' = [orgs EXCEPT ![o].pendingRequests =
                              Append(@, [userId |-> u, role |-> requestedRole])]
               /\ users' = [users EXCEPT ![u].pending = @ \cup {o}]
          ELSE UNCHANGED <<orgs, users>>
       /\ UNCHANGED <<nextId, flight>>
       /\ last' = Request("sendJoinRequest", u, o, u, out, requestedRole)

\* ------------------------------------------------------ cancelJoinRequest
CancelJoinOutcome(o, u) ==
    IF ~Exists(o) THEN Returns("false")
    ELSE IF ~HasPendingRequest(orgs[o], u) THEN Returns("false")
    ELSE Returns("true")

CancelJoinRequest(o, u) ==
    LET out == CancelJoinOutcome(o, u)
    IN /\ IF out.kind = "true"
          THEN /\ orgs' = [orgs EXCEPT ![o].pendingRequests = PullUser(@, u)]
               /\ users' = [users EXCEPT ![u].pending = @ \ {o}]
          ELSE UNCHANGED <<orgs, users>>
       /\ UNCHANGED <<nextId, flight>>
       /\ last' = Request("cancelJoinRequest", u, o, u, out, 0)

\* ------------------------------------------------------ acceptJoinRequest
IsAdmin(org, u) == org.admin = u
IsCaptain(org, u) == u \in org.captains

\* Variant: the status test is missing and the length is compared with >.
ClubIsFullLax(org) ==
    org.maxPlayers > 0 /\ Len(org.members) > org.maxPlayers

\* club.status === FULL || (club.maxPlayers > 0 && members.length >= maxPlayers)
ClubIsFull(org) ==
    \/ org.status = FULL
    \/ (org.maxPlayers > 0 /\ Len(org.members) >= org.maxPlayers)

\* Variant: the admin-or-captain test is missing.
AcceptJoinOutcomeAnyone(o, requestUserId, adminUserId) ==
    IF ~Exists(o) THEN Returns("false")
    ELSE IF ~HasPendingRequest(orgs[o], requestUserId) THEN Returns("false")
    ELSE IF ClubIsFull(orgs[o]) THEN BadRequest("Club is full")
    ELSE Returns("true")

AcceptJoinOutcome(o, requestUserId, adminUserId) ==
    IF ~Exists(o) THEN Returns("false")
    ELSE IF ~IsAdmin(orgs[o], adminUserId) /\ ~IsCaptain(orgs[o], adminUserId)
         THEN Returns("false")
    ELSE IF ~HasPendingRequest(orgs[o], requestUserId) THEN Returns("false")
    ELSE IF ClubIsFull(orgs[o]) THEN BadRequest("Club is full")
    ELSE Returns("true")

\* Variant: the update never names status.
AcceptClubUpdateNoStatus(club, requestUserId, adminUserId) ==
    [club EXCEPT
       !.pendingRequests = PullUser(@, requestUserId),
       !.members = Append(@, [userId |-> requestUserId]),
       !.captains = IF RequestedRoleOf(club, requestUserId) = "captain"
                       /\ IsAdmin(club, adminUserId)
                    THEN @ \cup {requestUserId}
                    ELSE @]

\* Variant: status becomes full only above maxPlayers.
AcceptClubUpdateLateFull(club, requestUserId, adminUserId) ==
    [club EXCEPT
       !.pendingRequests = PullUser(@, requestUserId),
       !.members = Append(@, [userId |-> requestUserId]),
       !.captains = IF RequestedRoleOf(club, requestUserId) = "captain"
                       /\ IsAdmin(club, adminUserId)
                    THEN @ \cup {requestUserId}
                    ELSE @,
       !.status = IF club.maxPlayers > 0 /\ Len(club.members) + 1 > club.maxPlayers
                  THEN FULL
                  ELSE @]

\* Variant: whoever accepts, a request for the captain role makes a captain.
AcceptClubUpdateAnyPromotes(club, requestUserId, adminUserId) ==
    [club EXCEPT
       !.pendingRequests = PullUser(@, requestUserId),
       !.members = Append(@, [userId |-> requestUserId]),
       !.captains = IF RequestedRoleOf(club, requestUserId) = "captain"
                    THEN @ \cup {requestUserId}
                    ELSE @,
       !.status = IF club.maxPlayers > 0 /\ Len(club.members) + 1 >= club.maxPlayers
                  THEN FULL
                  ELSE @]

\* The single clubUpdate document applied by findByIdAndUpdate.
AcceptClubUpdate(club, requestUserId, adminUserId) ==
    [club EXCEPT
       !.pendingRequests = PullUser(@, requestUserId),
       !.members = Append(@, [userId |-> requestUserId]),
       !.captains = IF RequestedRoleOf(club, requestUserId) = "captain"
                       /\ IsAdmin(club, adminUserId)
                    THEN @ \cup {requestUserId}
                    ELSE @,
       !.status = IF club.maxPlayers > 0 /\ Len(club.members) + 1 >= club.maxPlayers
                  THEN FULL
                  ELSE @]

AcceptJoinRequest(o, requestUserId, adminUserId) ==
    LET out == AcceptJoinOutcome(o, requestUserId, adminUserId)
    IN /\ IF out.kind = "true"
          THEN /\ orgs' = [orgs EXCEPT
                              ![o] = AcceptClubUpdate(@, requestUserId, adminUserId)]
               /\ users' = [users EXCEPT ![requestUserId].pending = @ \ {o},
                                         ![requestUserId].joined = @ \cup {o}]
          ELSE UNCHANGED <<orgs, users>>
       /\ UNCHANGED <<nextId, flight>>
       /\ last' = Request("acceptJoinRequest", adminUserId, o, requestUserId, out,
                          IF out.kind = "true" THEN RequestedRoleOf(orgs[o], requestUserId)
                          ELSE 0)

\* ------------------------------------------------------ rejectJoinRequest
\* Variant: a full club refuses, as acceptJoinRequest does.
RejectJoinOutcomeFullRefuses(o, requestUserId, adminUserId) ==
    IF ~Exists(o) THEN Returns("false")
    ELSE IF ~IsAdmin(orgs[o], adminUserId) /\ ~IsCaptain(orgs[o], adminUserId)
         THEN Returns("false")
    ELSE IF ~HasPendingRequest(orgs[o], requestUserId) THEN Returns("false")
    ELSE IF ClubIsFull(orgs[o]) THEN BadRequest("Club is full")
    ELSE Returns("true")

RejectJoinOutcome(o, requestUserId, adminUserId) ==
    IF ~Exists(o) THEN Returns("false")
    ELSE IF ~IsAdmin(orgs[o], adminUserId) /\ ~IsCaptain(orgs[o], adminUserId)
         THEN Returns("false")
    ELSE IF ~HasPendingRequest(orgs[o], requestUserId) THEN Returns("false")
    ELSE Returns("true")

RejectJoinRequest(o, requestUserId, adminUserId) ==
    LET out == RejectJoinOutcome(o, requestUserId, adminUserId)
    IN /\ IF out.kind = "true"
          THEN /\ orgs' = [orgs EXCEPT ![o].pendingRequests = PullUser(@, requestUserId)]
               /\ users' = [users EXCEPT ![requestUserId].pending = @ \ {o}]
          ELSE UNCHANGED <<orgs, users>>
       /\ UNCHANGED <<nextId, flight>>
       /\ last' = Request("rejectJoinRequest", adminUserId, o, requestUserId, out, 0)

\* ------------------------------------------------- updateUserSubscription
\* Club.find({ admin: userId })
ClubsOf(u) == {o \in OrgIds : Exists(o) /\ orgs[o].admin = u}

\* Variant: one organization above the new limit is let through.
TooManyClubsLax(u, newRole) ==
    /\ NewMaxClubs(newRole) < users[u].maxOrgs
    /\ Cardinality(users[u].owned) > NewMaxClubs(newRole) + 1

\* newMaxClubs < maxClubs && clubIds.length > newMaxClubs
TooManyClubs(u, newRole) ==
    /\ NewMaxClubs(newRole) < users[u].maxOrgs
    /\ Cardinality(users[u].owned) > NewMaxClubs(newRole)

\* Variant: the member count is compared with the limit of the current plan.
TooManyPlayersOldLimit(u, newRole) ==
    /\ NewMaxPlayers(newRole) < users[u].maxPlayers
    /\ \E o \in ClubsOf(u) : Len(orgs[o].members) > users[u].maxPlayers

\* newMaxPlayers < maxPlayers and some club has members.length > newMaxPlayers
TooManyPlayers(u, newRole) ==
    /\ NewMaxPlayers(newRole) < users[u].maxPlayers
    /\ \E o \in ClubsOf(u) : Len(orgs[o].members) > NewMaxPlayers(newRole)

\* The roles that are subscription plans.
PaidRoles == {SILVER, GOLD, PREMIUM}

\* A user id that names no user document.
NoUser == 0

\* The value that the update document of Club.updateMany gives for status: not
\* a string but an object holding a $cond expression over the member count.
\* The update is a classic update document, not an aggregation pipeline.
StatusUpdate(newMaxPlayers) ==
    [type |-> "object", operator |-> "$cond", limit |-> newMaxPlayers]

\* status is declared with type String.  The values of a classic update are
\* cast to the schema type of their path before anything is sent to the
\* database, and only a string casts to String.
CastsToString(value) == value.type = "string"

\* The error of a failed cast; the error handler answers it as "not found".
CastError(message) == [kind |-> "CastError", message |-> message]

\* Variant: super_admin is taken for a subscription role.
SubscriptionOutcomeAnyPlan(u, newRole) ==
    IF u \notin DOMAIN users THEN Returns("null")
    ELSE IF newRole \notin {SILVER, GOLD, PREMIUM, SUPER_ADMIN}
    THEN BadRequest("Invalid subscription type")
    ELSE IF users[u].role = newRole THEN Returns("unchanged")
    ELSE IF TooManyClubs(u, newRole)
    THEN BadRequest("Cannot downgrade: too many clubs")
    ELSE IF TooManyPlayers(u, newRole)
    THEN BadRequest("Cannot downgrade: too many members")
    ELSE IF ~CastsToString(StatusUpdate(NewMaxPlayers(newRole)))
    THEN CastError("Cast to string failed at path status")
    ELSE Returns("updated")

SubscriptionOutcome(u, newRole) ==
    IF u \notin DOMAIN users THEN Returns("null")
    ELSE IF newRole \notin {SILVER, GOLD, PREMIUM}
    THEN BadRequest("Invalid subscription type")
    ELSE IF users[u].role = newRole THEN Returns("unchanged")
    ELSE IF TooManyClubs(u, newRole)
    THEN BadRequest("Cannot downgrade: too many clubs")
    ELSE IF TooManyPlayers(u, newRole)
    THEN BadRequest("Cannot downgrade: too many members")
    ELSE IF ~CastsToString(StatusUpdate(NewMaxPlayers(newRole)))
    THEN CastError("Cast to string failed at path status")
    ELSE Returns("updated")

\* updateUserSubscription for a user whose organizations are groups.  The
\* method reads subscriptions.maxClubs and subscriptions.clubIds, which the
\* user document of a group admin does not have (it has maxGroups and
\* groupIds), so the first downgrade test compares with undefined and is
\* false; the second test looks for clubs with Club.find({ admin }) and finds
\* none, the organizations being documents of Group; Club.updateMany follows.
GroupSubscriptionOutcome(u, newRole) ==
    IF u \notin DOMAIN users THEN Returns("null")
    ELSE IF newRole \notin {SILVER, GOLD, PREMIUM}
    THEN BadRequest("Invalid subscription type")
    ELSE IF users[u].role = newRole THEN Returns("unchanged")
    ELSE IF ~CastsToString(StatusUpdate(NewMaxPlayers(newRole)))
    THEN CastError("Cast to string failed at path status")
    ELSE Returns("updated")

\* Club.updateMany({ admin: userId }, { maxPlayers, $set: { status: ... } }),
\* for a status value that casts: the limit is set and an organization at or
\* above it becomes full.
ApplyNewLimit(club, newMaxPlayers) ==
    [club EXCEPT
       !.maxPlayers = newMaxPlayers,
       !.status = IF Len(club.members) >= newMaxPlayers THEN FULL ELSE @]

\* Variant: the new limit is written to the clubs although the cast failed.
UpdateUserSubscriptionWritesLimit(u, newRole) ==
    LET out == SubscriptionOutcome(u, newRole)
    IN /\ IF out.kind = "CastError"
          THEN /\ orgs' = [o \in OrgIds |->
                             IF o \in ClubsOf(u)
                             THEN [orgs[o] EXCEPT !.maxPlayers = NewMaxPlayers(newRole)]
                             ELSE orgs[o]]
               /\ UNCHANGED users
          ELSE UNCHANGED <<orgs, users>>
       /\ UNCHANGED <<nextId, flight>>
       /\ last' = Request("updateUserSubscription", u, 0, u, out, newRole)

\* The checks, then Club.updateMany, then User.findByIdAndUpdate.  The cast of
\* the updateMany document fails before either write.
UpdateUserSubscription(u, newRole) ==
    LET out == SubscriptionOutcome(u, newRole)
    IN /\ IF out.kind = "updated"
          THEN /\ orgs' = [o \in OrgIds |->
                             IF o \in ClubsOf(u)
                             THEN ApplyNewLimit(orgs[o], NewMaxPlayers(newRole))
                             ELSE orgs[o]]
               /\ users' = [users EXCEPT
                              ![u].role = newRole,
                              ![u].maxOrgs = NewMaxClubs(newRole),
                              ![u].maxPlayers = NewMaxPlayers(newRole),
                              ![u].cost = NewCost(newRole)]
          ELSE UNCHANGED <<orgs, users>>
       /\ UNCHANGED <<nextId, flight>>
       /\ last' = Request("updateUserSubscription", u, 0, u, out, newRole)

\* ------------------------------------------------------------ updateClub
\* Request bodies of PUT /:id.  top are the keys at the top level of the body,
\* set the keys under a "$set" key; findByIdAndUpdate applies both.  Each body
\* names at most one of the stored fields; the empty one changes the name only.
PatchedFields == {"admin", "captains", "maxPlayers", "status"}

PatchValues ==
    [admin |-> NumUsers - 1, captains |-> {}, maxPlayers |-> MinPlayers, status |-> INACTIVE,
     members |-> <<>>]

Patches ==
    {[top |-> {}, set |-> {}]}
    \cup {[top |-> {f}, set |-> {}] : f \in PatchedFields}
    \cup {[top |-> {}, set |-> {f}] : f \in PatchedFields}

\* A body that names members; it is not among the keys removed for a captain.
MembersPatch == [top |-> {"members"}, set |-> {}]

\* delete updateData.admin / captains / maxPlayers / status
StripForCaptain(updateData) ==
    [updateData EXCEPT !.top = @ \ {"admin", "captains", "maxPlayers", "status"}]

\* Club.findByIdAndUpdate(clubId, updateData, { new: true, runValidators: true })
ApplyUpdate(club, updateData) ==
    LET given == updateData.top \cup updateData.set
    IN [club EXCEPT
          !.admin = IF "admin" \in given THEN PatchValues.admin ELSE @,
          !.captains = IF "captains" \in given THEN PatchValues.captains ELSE @,
          !.maxPlayers = IF "maxPlayers" \in given THEN PatchValues.maxPlayers ELSE @,
          !.status = IF "status" \in given THEN PatchValues.status ELSE @,
          !.members = IF "members" \in given THEN PatchValues.members ELSE @]

UpdateOutcome(o, u) ==
    IF ~Exists(o) THEN Returns("null")
    ELSE IF ~IsAdmin(orgs[o], u) /\ ~IsCaptain(orgs[o], u) THEN Returns("null")
    ELSE Returns("updated")

UpdateClub(o, u, updateData) ==
    LET out == UpdateOutcome(o, u)
    IN /\ IF out.kind = "updated"
          THEN orgs' = [orgs EXCEPT
                          ![o] = IF ~IsAdmin(@, u) /\ IsCaptain(@, u)
                                 THEN ApplyUpdate(@, StripForCaptain(updateData))
                                 ELSE ApplyUpdate(@, updateData)]
          ELSE UNCHANGED orgs
       /\ UNCHANGED <<users, nextId, flight>>
       /\ last' = Request("updateClub", u, o, u, out, 0)

\* ------------------------------------------- deleteClub, write by write
\* Variant: the club document is deleted first.
DeleteOrderDocumentFirst == <<"document", "members", "requests", "owner">>

\* The writes of deleteClub in the order the code awaits them: the members'
\* clubs, the requesters' clubsRequests, the admin's subscriptions.clubIds, the
\* club document.
DeleteOrder == <<"members", "requests", "owner", "document">>

\* deleteClub has passed its checks and has read memberIds and pendingUserIds.
DeleteBegin(o, u) ==
    /\ flight = Idle
    /\ DeleteOutcome(o, u).kind = "true"
    /\ flight' = [op |-> "deleteClub", org |-> o, actor |-> u,
                  memberIds |-> MemberIds(orgs[o]),
                  pendingUserIds |-> PendingIds(orgs[o]),
                  done |-> 0]
    /\ last' = [NoRequest EXCEPT !.op = "deleteClub", !.outcome = "running"]
    /\ UNCHANGED <<users, orgs, nextId>>

\* The next write of the deleteClub under way; the last one answers true.
DeleteWrite ==
    /\ flight # Idle
    /\ flight.op = "deleteClub"
    /\ LET o == flight.org
           u == flight.actor
           write == DeleteOrder[flight.done + 1]
       IN /\ users' = [x \in DOMAIN users |->
                         [users[x] EXCEPT
                            !.joined = IF write = "members" /\ x \in flight.memberIds
                                       THEN @ \ {o} ELSE @,
                            !.pending = IF write = "requests" /\ x \in flight.pendingUserIds
                                        THEN @ \ {o} ELSE @,
                            !.owned = IF write = "owner" /\ x = u
                                      THEN @ \ {o} ELSE @]]
          /\ orgs' = IF write = "document" THEN [orgs EXCEPT ![o] = NoOrg] ELSE orgs
          /\ IF flight.done + 1 = Len(DeleteOrder)
             THEN /\ flight' = Idle
                  /\ last' = Request("deleteClub", u, o, u, Returns("true"), 0)
             ELSE /\ flight' = [flight EXCEPT !.done = @ + 1]
                  /\ UNCHANGED last
    /\ UNCHANGED nextId

\* The server stops while a deleteClub is between two writes (or before its
\* first): the writes made so far stay, no further request is handled.
Crashed == [op |-> "crashed"]

DeleteAbort ==
    /\ flight # Idle
    /\ flight.op = "deleteClub"
    /\ flight' = Crashed
    /\ last' = [Request("deleteClub", flight.actor, flight.org, flight.actor,
                        [kind |-> "aborted", message |-> ""], 0)
                  EXCEPT !.org = flight.org, !.arg = flight.done]
    /\ UNCHANGED <<users, orgs, nextId>>

\* ------------------------------------------- requests that run concurrently
\* The service methods are async: between two awaits of one call the awaits of
\* another call may run.  A call reads the club once and tests what it read;
\* each of its writes is one findByIdAndUpdate, applied by the database to the
\* document as it is then.  flight.calls holds, for each caller, the call it
\* has under way after its tests, with what the call computed from its read.
Callers == 1..NumCallers
NoCall == [op |-> "none"]
NoCalls == [op |-> "calls", calls |-> [p \in Callers |-> NoCall]]

\* sendJoinRequest up to its first write: Club.findById and the tests.
SendBegin(p, o, u, requestedRole) ==
    LET out == SendJoinOutcome(o, u)
    IN /\ flight.calls[p] = NoCall
       /\ IF out.kind = "true"
          THEN /\ flight' = [flight EXCEPT
                               !.calls[p] = [op |-> "sendJoinRequest", org |-> o, actor |-> u,
                                             target |-> u, role |-> requestedRole,
                                             pc |-> "club"]]
               /\ UNCHANGED last
          ELSE /\ UNCHANGED flight
               /\ last' = Request("sendJoinRequest", u, o, u, out, requestedRole)
       /\ UNCHANGED <<users, orgs, nextId>>

\* Club.findByIdAndUpdate(clubId, { $push: { pendingRequests: {userId, role} } })
SendWriteClub(p) ==
    LET call == flight.calls[p]
    IN /\ call.op = "sendJoinRequest"
       /\ call.pc = "club"
       /\ orgs' = IF Exists(call.org)
                  THEN [orgs EXCEPT ![call.org].pendingRequests =
                          Append(@, [userId |-> call.actor, role |-> call.role])]
                  ELSE orgs
       /\ flight' = [flight EXCEPT !.calls[p].pc = "user"]
       /\ UNCHANGED <<users, nextId, last>>

\* User.findByIdAndUpdate(userId, { $addToSet: { clubsRequests: clubId } })
SendWriteUser(p) ==
    LET call == flight.calls[p]
    IN /\ call.op = "sendJoinRequest"
       /\ call.pc = "user"
       /\ users' = [users EXCEPT ![call.actor].pending = @ \cup {call.org}]
       /\ flight' = [flight EXCEPT !.calls[p] = NoCall]
       /\ last' = Request("sendJoinRequest", call.actor, call.org, call.actor,
                          Returns("true"), call.role)
       /\ UNCHANGED <<orgs, nextId>>

\* acceptJoinRequest up to its first write: Club.findById, User.findById, the
\* tests, and the clubUpdate document built from the club as it was read.
AcceptBegin(p, o, requestUserId, adminUserId) ==
    LET out == AcceptJoinOutcome(o, requestUserId, adminUserId)
        club == orgs[o]
    IN /\ flight.calls[p] = NoCall
       /\ IF out.kind = "true"
          THEN /\ flight' = [flight EXCEPT
                               !.calls[p] =
                                 [op |-> "acceptJoinRequest", org |-> o,
                                  actor |-> adminUserId, target |-> requestUserId,
                                  role |-> RequestedRoleOf(club, requestUserId),
                                  captain |-> /\ RequestedRoleOf(club, requestUserId) = "captain"
                                              /\ IsAdmin(club, adminUserId),
                                  full |-> /\ club.maxPlayers > 0
                                           /\ Len(club.members) + 1 >= club.maxPlayers,
                                  pc |-> "club"]]
               /\ UNCHANGED last
          ELSE /\ UNCHANGED flight
               /\ last' = Request("acceptJoinRequest", adminUserId, o, requestUserId, out, 0)
       /\ UNCHANGED <<users, orgs, nextId>>

\* Variant: the update is applied only while the club has room.
AcceptWriteClubRechecks(p) ==
    LET call == flight.calls[p]
    IN /\ call.op = "acceptJoinRequest"
       /\ call.pc = "club"
       /\ orgs' = IF Exists(call.org) /\ ~ClubIsFull(orgs[call.org])
                  THEN [orgs EXCEPT
                          ![call.org].pendingRequests = PullUser(@, call.target),
                          ![call.org].members = Append(@, [userId |-> call.target]),
                          ![call.org].captains = IF call.captain THEN @ \cup {call.target} ELSE @,
                          ![call.org].status = IF call.full THEN FULL ELSE @]
                  ELSE orgs
       /\ flight' = [flight EXCEPT !.calls[p].pc = "user"]
       /\ UNCHANGED <<users, nextId, last>>

\* Club.findByIdAndUpdate(clubId, clubUpdate): the filter is the id alone.
AcceptWriteClub(p) ==
    LET call == flight.calls[p]
    IN /\ call.op = "acceptJoinRequest"
       /\ call.pc = "club"
       /\ orgs' = IF Exists(call.org)
                  THEN [orgs EXCEPT
                          ![call.org].pendingRequests = PullUser(@, call.target),
                          ![call.org].members = Append(@, [userId |-> call.target]),
                          ![call.org].captains = IF call.captain THEN @ \cup {call.target} ELSE @,
                          ![call.org].status = IF call.full THEN FULL ELSE @]
                  ELSE orgs
       /\ flight' = [flight EXCEPT !.calls[p].pc = "user"]
       /\ UNCHANGED <<users, nextId, last>>

\* User.findByIdAndUpdate(requestUserId, { $pull: clubsRequests, $addToSet: clubs })
AcceptWriteUser(p) ==
    LET call == flight.calls[p]
    IN /\ call.op = "acceptJoinRequest"
       /\ call.pc = "user"
       /\ users' = [users EXCEPT ![call.target].pending = @ \ {call.org},
                                 ![call.target].joined = @ \cup {call.org}]
       /\ flight' = [flight EXCEPT !.calls[p] = NoCall]
       /\ last' = Request("acceptJoinRequest", call.actor, call.org, call.target,
                          Returns("true"), call.role)
       /\ UNCHANGED <<orgs, nextId>>

\* deleteClub up to its first write: Club.findById, the admin test, and the
\* member and requester ids taken from the club as it was read.
DeleteCallBegin(p, o, u) ==
    LET out == DeleteOutcome(o, u)
    IN /\ flight.calls[p] = NoCall
       /\ IF out.kind = "true"
          THEN /\ flight' = [flight EXCEPT
                               !.calls[p] = [op |-> "deleteClub", org |-> o, actor |-> u,
                                             memberIds |-> MemberIds(orgs[o]),
                                             pendingUserIds |-> PendingIds(orgs[o]),
                                             done |-> 0]]
               /\ UNCHANGED last
          ELSE /\ UNCHANGED flight
               /\ last' = Request("deleteClub", u, o, u, out, 0)
       /\ UNCHANGED <<users, orgs, nextId>>

\* The next write of a deleteClub call, in DeleteOrder; the last one answers.
DeleteCallWrite(p) ==
    LET call == flight.calls[p]
    IN /\ call.op = "deleteClub"
       /\ LET o == call.org
              u == call.actor
              write == DeleteOrder[call.done + 1]
          IN /\ users' = [x \in DOMAIN users |->
                            [users[x] EXCEPT
                               !.joined = IF write = "members" /\ x \in call.memberIds
                                          THEN @ \ {o} ELSE @,
                               !.pending = IF write = "requests" /\ x \in call.pendingUserIds
                                           THEN @ \ {o} ELSE @,
                               !.owned = IF write = "owner" /\ x = u
                                         THEN @ \ {o} ELSE @]]
             /\ orgs' = IF write = "document" THEN [orgs EXCEPT ![o] = NoOrg] ELSE orgs
             /\ IF call.done + 1 = Len(DeleteOrder)
                THEN /\ flight' = [flight EXCEPT !.calls[p] = NoCall]
                     /\ last' = Request("deleteClub", u, o, u, Returns("true"), 0)
                ELSE /\ flight' = [flight EXCEPT !.calls[p].done = @ + 1]
                     /\ UNCHANGED last
       /\ UNCHANGED nextId

\* createClub calls that have passed their tests and not yet created the club.
CreatesPending ==
    Cardinality({p \in Callers : /\ flight.calls[p].op = "createClub"
                                  /\ flight.calls[p].pc = "club"})

\* createClub up to its first write: User.findById, Club.countDocuments and
\* the tests.  The validation of Club.create depends on the body and on the
\* plan alone, so its outcome is known here.
CreateBegin(p, u, data) ==
    LET out == CreateOutcome(u, data)
    IN /\ flight.calls[p] = NoCall
       /\ out.kind = "created" => nextId + CreatesPending <= MaxOrgIds
       /\ IF out.kind = "created"
          THEN /\ flight' = [flight EXCEPT
                               !.calls[p] = [op |-> "createClub", org |-> 0, actor |-> u,
                                             data |-> data, pc |-> "club"]]
               /\ UNCHANGED last
          ELSE /\ UNCHANGED flight
               /\ last' = Request("createClub", u, nextId, u, out, data.maxPlayers)
       /\ UNCHANGED <<users, orgs, nextId>>

\* Club.create({...clubData, admin: userId, members: [...]})
CreateWriteClub(p) ==
    LET call == flight.calls[p]
    IN /\ call.op = "createClub"
       /\ call.pc = "club"
       /\ orgs' = [orgs EXCEPT ![nextId] = NewClub(call.actor, call.data)]
       /\ nextId' = nextId + 1
       /\ flight' = [flight EXCEPT !.calls[p].org = nextId, !.calls[p].pc = "joined"]
       /\ UNCHANGED <<users, last>>

\* User.findByIdAndUpdate(userId, { $addToSet: { clubs: club._id } })
CreateWriteJoined(p) ==
    LET call == flight.calls[p]
    IN /\ call.op = "createClub"
       /\ call.pc = "joined"
       /\ users' = [users EXCEPT ![call.actor].joined = @ \cup {call.org}]
       /\ flight' = [flight EXCEPT !.calls[p].pc = "owned"]
       /\ UNCHANGED <<orgs, nextId, last>>

\* User.findByIdAndUpdate(userId, { $addToSet: { "subscriptions.clubIds": club._id } })
CreateWriteOwned(p) ==
    LET call == flight.calls[p]
    IN /\ call.op = "createClub"
       /\ call.pc = "owned"
       /\ users' = [users EXCEPT ![call.actor].owned = @ \cup {call.org}]
       /\ flight' = [flight EXCEPT !.calls[p] = NoCall]
       /\ last' = Request("createClub", call.actor, call.org, call.actor,
                          Returns("created"), call.data.maxPlayers)
       /\ UNCHANGED <<orgs, nextId>>

\* What updateUserSubscription answers from the user document alone:
\* User.findById, the role tests and the first downgrade test.
SubscriptionFirstOutcome(u, newRole) ==
    IF u \notin DOMAIN users THEN Returns("null")
    ELSE IF newRole \notin {SILVER, GOLD, PREMIUM}
    THEN BadRequest("Invalid subscription type")
    ELSE IF users[u].role = newRole THEN Returns("unchanged")
    ELSE IF TooManyClubs(u, newRole)
    THEN BadRequest("Cannot downgrade: too many clubs")
    ELSE Returns("continue")

\* updateUserSubscription up to Club.find; the subscription record it read is
\* kept for the user update.
SubscriptionBegin(p, u, newRole) ==
    LET out == SubscriptionFirstOutcome(u, newRole)
    IN /\ flight.calls[p] = NoCall
       /\ IF out.kind = "continue"
          THEN /\ flight' = [flight EXCEPT
                               !.calls[p] = [op |-> "updateUserSubscription", actor |-> u,
                                             role |-> newRole, owned |-> users[u].owned,
                                             pc |-> "clubs"]]
               /\ UNCHANGED last
          ELSE /\ UNCHANGED flight
               /\ last' = Request("updateUserSubscription", u, 0, u, out, newRole)
       /\ UNCHANGED <<users, orgs, nextId>>

\* Club.find and the second downgrade test, then Club.updateMany, whose cast
\* fails, and User.findByIdAndUpdate with the subscription record read at the
\* start.
SubscriptionFinish(p) ==
    LET call == flight.calls[p]
        u == call.actor
        newRole == call.role
        out == IF TooManyPlayers(u, newRole)
               THEN BadRequest("Cannot downgrade: too many members")
               ELSE IF ~CastsToString(StatusUpdate(NewMaxPlayers(newRole)))
               THEN CastError("Cast to string failed at path status")
               ELSE Returns("updated")
    IN /\ call.op = "updateUserSubscription"
       /\ call.pc = "clubs"
       /\ IF out.kind = "updated"
          THEN /\ orgs' = [o \in OrgIds |->
                             IF o \in ClubsOf(u)
                             THEN ApplyNewLimit(orgs[o], NewMaxPlayers(newRole))
                             ELSE orgs[o]]
               /\ users' = [users EXCEPT
                              ![u].role = newRole,
                              ![u].owned = call.owned,
                              ![u].maxOrgs = NewMaxClubs(newRole),
                              ![u].maxPlayers = NewMaxPlayers(newRole),
                              ![u].cost = NewCost(newRole)]
          ELSE UNCHANGED <<orgs, users>>
       /\ flight' = [flight EXCEPT !.calls[p] = NoCall]
       /\ last' = Request("updateUserSubscription", u, 0, u, out, newRole)
       /\ UNCHANGED nextId

\* ------------------------------------------------------------ state machine
\* Roles of the requesting users when the run starts: the first one holds a
\* paid plan, the last one is the super admin, the others are plain users.
InitialRoles(u) ==
    IF u = 1 THEN {SILVER, GOLD, PREMIUM}
    ELSE IF u = NumUsers THEN {SUPER_ADMIN}
    ELSE {USER}

\* An empty store.
InitEmpty ==
    /\ \E r \in [Users -> UserRoleEnum] :
          /\ \A u \in Users : r[u] \in InitialRoles(u)
          /\ users = [x \in Users |-> NewUser(r[x])]
    /\ orgs = [o \in OrgIds |-> NoOrg]
    /\ nextId = 1
    /\ last = NoRequest
    /\ flight = Idle

\* A store in which user 1 (premium) has created organization 1 with the default
\* limit and has accepted every user of Crowd into it.
SeedClub ==
    [exists |-> TRUE,
     admin |-> 1,
     captains |-> {},
     members |-> <<[userId |-> 1]>> \o [i \in 1..CrowdSize |-> [userId |-> NumUsers + i]],
     pendingRequests |-> <<>>,
     maxPlayers |-> TierMaxPlayers(PREMIUM),
     status |-> ACTIVE]

InitSeeded ==
    /\ users = [x \in AllUsers |->
                  IF x = 1
                  THEN [NewUser(PREMIUM) EXCEPT !.joined = {1}, !.owned = {1}]
                  ELSE IF x \in Crowd
                       THEN [NewUser(USER) EXCEPT !.joined = {1}]
                       ELSE NewUser(USER)]
    /\ orgs = [o \in OrgIds |-> IF o = 1 THEN SeedClub ELSE NoOrg]
    /\ nextId = 2
    /\ last = NoRequest
    /\ flight = Idle


Next ==
    \/ \E u \in Users, data \in Bodies : CreateClub(u, data)
    \/ \E o \in OrgIds, u \in Users : DeleteClub(o, u)
    \/ \E o \in OrgIds, u \in Users : LeaveClub(o, u)
    \/ \E o \in OrgIds, u \in Users, r \in RequestedRoles : SendJoinRequest(o, u, r)
    \/ \E o \in OrgIds, u \in Users : CancelJoinRequest(o, u)
    \/ \E o \in OrgIds, r \in Users, a \in Users : AcceptJoinRequest(o, r, a)
    \/ \E o \in OrgIds, r \in Users, a \in Users : RejectJoinRequest(o, r, a)
    \/ \E u \in (1..NumSubscribers) \cup {NoUser}, newRole \in UserRoleEnum :
          UpdateUserSubscription(u, newRole)

\* Runs from the empty store.
Init == InitEmpty
Spec == Init /\ [][Next]_vars

\* Runs from the store with the crowded organization.
SpecSeeded == InitSeeded /\ [][Next]_vars

\* One request at a time, and a deleteClub that may stop between its writes.
NextCrash ==
    \/ flight = Idle /\ Next
    \/ \E o \in OrgIds, u \in Users : DeleteBegin(o, u)
    \/ DeleteWrite
    \/ DeleteAbort

SpecCrash == Init /\ [][NextCrash]_vars

\* One request at a time, updateClub among them, on the organizations that
\* these runs create.
NextUpdate ==
    \/ \E u \in Users, data \in Bodies : nextId <= UpdatedOrgs /\ CreateClub(u, data)
    \/ \E o \in 1..UpdatedOrgs, u \in Users : DeleteClub(o, u)
    \/ \E o \in 1..UpdatedOrgs, u \in Users : LeaveClub(o, u)
    \/ \E o \in 1..UpdatedOrgs, u \in Users, r \in RequestedRoles : SendJoinRequest(o, u, r)
    \/ \E o \in 1..UpdatedOrgs, u \in Users : CancelJoinRequest(o, u)
    \/ \E o \in 1..UpdatedOrgs, r \in Users, a \in Users : AcceptJoinRequest(o, r, a)
    \/ \E o \in 1..UpdatedOrgs, r \in Users, a \in Users : RejectJoinRequest(o, r, a)
    \/ \E u \in (1..NumSubscribers) \cup {NoUser}, newRole \in UserRoleEnum :
          UpdateUserSubscription(u, newRole)
    \/ \E o \in 1..UpdatedOrgs, u \in Users, updateData \in Patches : UpdateClub(o, u, updateData)

SpecUpdate == Init /\ [][NextUpdate]_vars

\* One request at a time: organizations are created, joined and left, and
\* the bodies of updateClub name members.
NextUpdateMembers ==
    \/ \E u \in Users, data \in PlainBodies : nextId <= UpdatedOrgs /\ CreateClub(u, data)
    \/ \E o \in 1..UpdatedOrgs, u \in Users : LeaveClub(o, u)
    \/ \E o \in 1..UpdatedOrgs, u \in Users, r \in RequestedRoles : SendJoinRequest(o, u, r)
    \/ \E o \in 1..UpdatedOrgs, r \in Users, a \in Users : AcceptJoinRequest(o, r, a)
    \/ \E o \in 1..UpdatedOrgs, u \in Users : UpdateClub(o, u, MembersPatch)

SpecUpdateMembers == Init /\ [][NextUpdateMembers]_vars

\* One request at a time on the organizations that these runs create; the
\* body of createClub may name the caller among the pending requests.
NextSelfRequest ==
    \/ \E u \in Users :
          \E data \in PlainBodies \cup {SelfRequestBody(u)} :
             nextId <= UpdatedOrgs /\ CreateClub(u, data)
    \/ \E o \in 1..UpdatedOrgs, u \in Users : DeleteClub(o, u)
    \/ \E o \in 1..UpdatedOrgs, u \in Users : LeaveClub(o, u)
    \/ \E o \in 1..UpdatedOrgs, u \in Users, r \in RequestedRoles : SendJoinRequest(o, u, r)
    \/ \E o \in 1..UpdatedOrgs, u \in Users : CancelJoinRequest(o, u)
    \/ \E o \in 1..UpdatedOrgs, r \in Users, a \in Users : AcceptJoinRequest(o, r, a)
    \/ \E o \in 1..UpdatedOrgs, r \in Users, a \in Users : RejectJoinRequest(o, r, a)

SpecSelfRequest == Init /\ [][NextSelfRequest]_vars

\* A store in which user 1 has created organization 1 for MinPlayers players.
RaceClub ==
    [exists |-> TRUE,
     admin |-> 1,
     captains |-> {},
     members |-> <<[userId |-> 1]>>,
     pendingRequests |-> <<>>,
     maxPlayers |-> MinPlayers,
     status |-> ACTIVE]

InitRace ==
    /\ \E r \in [Users -> UserRoleEnum] :
          /\ \A u \in Users : r[u] \in InitialRoles(u)
          /\ users = [x \in Users |->
                        IF x = 1
                        THEN [NewUser(r[x]) EXCEPT !.joined = {1}, !.owned = {1}]
                        ELSE NewUser(r[x])]
    /\ orgs = [o \in OrgIds |-> IF o = 1 THEN RaceClub ELSE NoOrg]
    /\ nextId = 2
    /\ last = NoRequest
    /\ flight = NoCalls

\* Join requests and their acceptance by up to NumCallers callers at once, on
\* the organizations that exist, with changes of plan between their steps.
\* updateUserSubscription never gets to a write, so it is one step.
NextRace ==
    \/ \E p \in Callers, o \in OrgIds, u \in Users, r \in RequestedRoles :
          Exists(o) /\ SendBegin(p, o, u, r)
    \/ \E p \in Callers : SendWriteClub(p)
    \/ \E p \in Callers : SendWriteUser(p)
    \/ \E p \in Callers, o \in OrgIds, r \in Users, a \in Users :
          Exists(o) /\ AcceptBegin(p, o, r, a)
    \/ \E p \in Callers : AcceptWriteClub(p)
    \/ \E p \in Callers : AcceptWriteUser(p)
    \/ \E u \in 1..NumSubscribers, newRole \in PaidRoles :
          UpdateUserSubscription(u, newRole)

SpecRace == InitRace /\ [][NextRace]_vars

\* Join requests, their acceptance and deleteClub by up to NumCallers callers
\* at once, on the organization of InitRace.
NextRaceDelete ==
    \/ \E p \in Callers, o \in OrgIds, u \in Users, r \in RequestedRoles :
          Exists(o) /\ SendBegin(p, o, u, r)
    \/ \E p \in Callers : SendWriteClub(p)
    \/ \E p \in Callers : SendWriteUser(p)
    \/ \E p \in Callers, o \in OrgIds, r \in Users, a \in Users :
          Exists(o) /\ AcceptBegin(p, o, r, a)
    \/ \E p \in Callers : AcceptWriteClub(p)
    \/ \E p \in Callers : AcceptWriteUser(p)
    \/ \E p \in Callers, o \in OrgIds, u \in Users : Exists(o) /\ DeleteCallBegin(p, o, u)
    \/ \E p \in Callers : DeleteCallWrite(p)

SpecRaceDelete == InitRace /\ [][NextRaceDelete]_vars

\* The empty store, with no call under way.
InitRaceCreate ==
    /\ \E r \in [Users -> UserRoleEnum] :
          /\ \A u \in Users : r[u] \in InitialRoles(u)
          /\ users = [x \in Users |-> NewUser(r[x])]
    /\ orgs = [o \in OrgIds |-> NoOrg]
    /\ nextId = 1
    /\ last = NoRequest
    /\ flight = NoCalls

\* createClub and changes of plan by up to NumCallers callers at once.
NextRaceCreate ==
    \/ \E p \in Callers, u \in Users, data \in PlainBodies : CreateBegin(p, u, data)
    \/ \E p \in Callers : CreateWriteClub(p)
    \/ \E p \in Callers : CreateWriteJoined(p)
    \/ \E p \in Callers : CreateWriteOwned(p)
    \/ \E p \in Callers, u \in 1..NumSubscribers, newRole \in PaidRoles :
          SubscriptionBegin(p, u, newRole)
    \/ \E p \in Callers : SubscriptionFinish(p)

SpecRaceCreate == InitRaceCreate /\ [][NextRaceCreate]_vars

TypeOK ==
    /\ nextId \in 1..(MaxOrgIds + 1)
    /\ \A u \in DOMAIN users : users[u].role \in UserRoleEnum
    /\ \A o \in OrgIds : Exists(o) => orgs[o].status \in ClubStatusEnum

\* ================================================================= claims
StoreUnchanged == UNCHANGED <<users, orgs, nextId>>

\* C1 (quota invariant): no user ever owns more organizations than the plan
\* allows, and a createOrganization call made by a paid user who already owns
\* maxOrgs organizations fails with BadRequest and changes neither the users
\* nor the organizations.
QuotaInvariant ==
    /\ [](\A u \in DOMAIN users : Cardinality(users[u].owned) <= users[u].maxOrgs)
    /\ [][last'.op = "createClub" =>
            \A u \in Users :
               (/\ users[u].role \in PaidRoles
                /\ Cardinality(users[u].owned) >= users[u].maxOrgs)
               => \A data \in Bodies :
                     CreateClub(u, data)
                     => (last'.outcome = "BadRequest" /\ StoreUnchanged)]_vars

\* A paid user owns as many organizations as the plan allows and the call that
\* followed was refused.
QuotaRefused ==
    /\ last.op = "createClub"
    /\ last.outcome = "BadRequest"
    /\ \E u \in Users :
          /\ users[u].role \in PaidRoles
          /\ users[u].maxOrgs > 0
          /\ Cardinality(users[u].owned) = users[u].maxOrgs

MirrorSymmetry ==
    \A u \in DOMAIN users, o \in OrgIds :
        (o \in users[u].pending) <=> (Exists(o) /\ u \in PendingIds(orgs[o]))

\* C4 (idempotence): a requestJoin by a user who is neither member nor pending, on
\* an existing organization that is not full, returns true, and the same request
\* issued again right after returns false and changes nothing; a cancelJoin of
\* an existing pending request returns true, and issued again right after it
\* returns false and changes nothing.
JoinIdempotence ==
    [][/\ last'.op = "sendJoinRequest" =>
            \A o \in OrgIds, u \in Users :
               /\ (/\ Exists(o)
                   /\ orgs[o].status # FULL
                   /\ u \notin MemberIds(orgs[o])
                   /\ u \notin PendingIds(orgs[o]))
                  => \A r \in RequestedRoles :
                        SendJoinRequest(o, u, r) => last'.outcome = "true"
               /\ (/\ last.op = "sendJoinRequest"
                   /\ last.outcome = "true"
                   /\ last.org = o
                   /\ last.actor = u)
                  => \A r \in RequestedRoles :
                        SendJoinRequest(o, u, r)
                        => (last'.outcome = "false" /\ StoreUnchanged)
       /\ last'.op = "cancelJoinRequest" =>
            \A o \in OrgIds, u \in Users :
               /\ (Exists(o) /\ u \in PendingIds(orgs[o]))
                  => (CancelJoinRequest(o, u) => last'.outcome = "true")
               /\ (/\ last.op = "cancelJoinRequest"
                   /\ last.outcome = "true"
                   /\ last.org = o
                   /\ last.actor = u)
                  => (CancelJoinRequest(o, u)
                      => (last'.outcome = "false" /\ StoreUnchanged))]_vars

\* A join request was sent twice in a row and the second one returned false.
JoinRequestedTwice ==
    /\ last.op = "sendJoinRequest"
    /\ last.outcome = "false"
    /\ last.again

\* C5 (downgrade safety): a plan change that lowers the member ceiling while an
\* organization administered by the user holds more members than the new
\* ceiling fails with BadRequest and changes no organization and no user.
DowngradeSafety ==
    [][last'.op = "updateUserSubscription" =>
          \A u \in 1..NumSubscribers, newRole \in PaidRoles :
             (/\ NewMaxPlayers(newRole) < users[u].maxPlayers
              /\ \E o \in OrgIds :
                    /\ Exists(o)
                    /\ orgs[o].admin = u
                    /\ Len(orgs[o].members) > NewMaxPlayers(newRole)
              /\ UpdateUserSubscription(u, newRole))
             => (last'.outcome = "BadRequest" /\ StoreUnchanged)]_vars

\* A downgrade was refused for the member count of one organization while the
\* same user administers another organization that fits every plan.
DowngradeRefused ==
    /\ last.op = "updateUserSubscription"
    /\ last.outcome = "BadRequest"
    /\ last.message = "Cannot downgrade: too many members"
    /\ \E u \in 1..NumSubscribers, o1 \in OrgIds, o2 \in OrgIds :
          /\ Exists(o1) /\ orgs[o1].admin = u
          /\ Exists(o2) /\ orgs[o2].admin = u
          /\ Len(orgs[o1].members) > NewMaxPlayers(GOLD)
          /\ Len(orgs[o2].members) <= NewMaxPlayers(SILVER)

LeaveRefusals ==
    [][last'.op = "leaveClub" =>
          \A o \in OrgIds, u \in Users :
             Exists(o) =>
                /\ (orgs[o].admin = u)
                   => (LeaveClub(o, u)
                       => (last'.outcome = "BadRequest" /\ StoreUnchanged))
                /\ (orgs[o].admin # u /\ u \notin MemberIds(orgs[o]))
                   => (LeaveClub(o, u)
                       => (last'.outcome = "false" /\ StoreUnchanged))]_vars

\* The admin of an organization tried to leave it and was refused.
AdminLeaveRefused ==
    /\ last.op = "leaveClub"
    /\ last.outcome = "BadRequest"
    /\ \E o \in OrgIds : Exists(o) /\ IsMember(orgs[o], orgs[o].admin)

\* C8 (captain promotion): a successful accept makes the requester a member, and
\* adds the requester to captains exactly when the requested role is "captain"
\* and the accepting user is the admin.
CaptainPromotion ==
    [][(last'.op = "acceptJoinRequest" /\ last'.outcome = "true") =>
          LET o == last'.org
              r == last'.target
              a == last'.actor
          IN /\ r \in MemberIds(orgs'[o])
             /\ orgs'[o].captains =
                   IF last'.arg = "captain" /\ orgs[o].admin = a
                   THEN orgs[o].captains \cup {r}
                   ELSE orgs[o].captains]_vars

\* A captain who is not the admin accepted a request for the captain role: the
\* requester is a member and not a captain.
CaptainAcceptedCaptain ==
    /\ last.op = "acceptJoinRequest"
    /\ last.outcome = "true"
    /\ last.arg = "captain"
    /\ last.actor # orgs[last.org].admin
    /\ last.actor \in orgs[last.org].captains
    /\ last.target \in MemberIds(orgs[last.org])
    /\ last.target \notin orgs[last.org].captains

\* C9: createOrganization is refused with Forbidden exactly for the roles that
\* are neither a paid plan nor super admin, and a refusal changes nothing.
CreateTierGate ==
    [][last'.op = "createClub" =>
          \A u \in Users, data \in Bodies :
             CreateClub(u, data) =>
                /\ (last'.outcome = "Forbidden")
                   <=> (users[u].role \notin {SILVER, GOLD, PREMIUM, SUPER_ADMIN})
                /\ last'.outcome = "Forbidden" => StoreUnchanged]_vars

\* C10: a created organization has the requested maxPlayers when that is
\* positive and at most the owner's plan ceiling, and the ceiling otherwise; it
\* never exceeds the ceiling.
MaxPlayersClamped ==
    [][(last'.op = "createClub" /\ last'.outcome = "created") =>
          LET ceiling == users[last'.actor].maxPlayers
              requested == last'.arg
              stored == orgs'[last'.org].maxPlayers
          IN /\ stored = IF 0 < requested /\ requested <= ceiling
                         THEN requested
                         ELSE ceiling
             /\ stored <= ceiling]_vars

\* An organization was created from a request above the plan ceiling and holds
\* the ceiling.
CreatedAboveCeiling ==
    /\ last.op = "createClub"
    /\ last.outcome = "created"
    /\ last.arg > users[last.actor].maxPlayers
    /\ orgs[last.org].maxPlayers = users[last.actor].maxPlayers

\* C11: a successful createOrganization yields an organization whose admin is
\* the owner, whose members are exactly the owner's one record, whose captains
\* and pendingRequests are empty, and whose id is in the owner's ownedOrgIds and
\* joined set.
CreateYieldsFreshOrg ==
    [][(last'.op = "createClub" /\ last'.outcome = "created") =>
          LET o == last'.org
              u == last'.actor
          IN /\ orgs[o] = NoOrg
             /\ orgs'[o].admin = u
             /\ orgs'[o].members = <<[userId |-> u]>>
             /\ orgs'[o].captains = {}
             /\ orgs'[o].pendingRequests = <<>>
             /\ o \in users'[u].owned
             /\ o \in users'[u].joined]_vars

CrashSafeDelete ==
    /\ [](\A x \in DOMAIN users :
             \A o \in users[x].joined \cup users[x].pending \cup users[x].owned :
                Exists(o))
    /\ [][(/\ flight # Idle
           /\ flight.op = "deleteClub"
           /\ \E o \in OrgIds : Exists(o) /\ orgs'[o] = NoOrg)
          => (/\ flight.done = 3
              /\ \A x \in DOMAIN users :
                    /\ flight.org \notin users[x].joined
                    /\ flight.org \notin users[x].pending
                    /\ flight.org \notin users[x].owned)]_vars

\* A deleteClub stopped after the members' cleanup and before the requesters':
\* the organization exists, a member's record no longer names it, a
\* requester's record still does.
DeleteStoppedMidway ==
    /\ flight = Crashed
    /\ last.op = "deleteClub"
    /\ last.outcome = "aborted"
    /\ last.arg = 1
    /\ Exists(last.org)
    /\ \E x \in MemberIds(orgs[last.org]) : last.org \notin users[x].joined
    /\ \E x \in PendingIds(orgs[last.org]) : last.org \in users[x].pending

\* C14: a leave by a member who is not the admin succeeds; it removes the user
\* from members and from captains and the organization from the user's joined
\* set, and leaves admin, pendingRequests, maxPlayers, status, the other members
\* and captains, the other organizations and every other user's record as they
\* were.
LeaveFrame ==
    [][last'.op = "leaveClub" =>
          /\ \/ last'.outcome = "true"
             \/ \A o \in OrgIds, u \in Users :
                   (Exists(o) /\ orgs[o].admin # u /\ u \in MemberIds(orgs[o]))
                   => ~LeaveClub(o, u)
          /\ last'.outcome = "true" =>
                LET o == last'.org
                    u == last'.actor
                IN /\ orgs[o].admin # u
                   /\ u \in MemberIds(orgs[o])
                   /\ orgs'[o].members =
                         SelectSeq(orgs[o].members, LAMBDA e : e.userId # u)
                   /\ orgs'[o].captains = orgs[o].captains \ {u}
                   /\ users'[u].joined = users[u].joined \ {o}
                   /\ orgs'[o].admin = orgs[o].admin
                   /\ orgs'[o].pendingRequests = orgs[o].pendingRequests
                   /\ orgs'[o].maxPlayers = orgs[o].maxPlayers
                   /\ orgs'[o].status = orgs[o].status
                   /\ \A p \in OrgIds \ {o} : orgs'[p] = orgs[p]
                   /\ \A x \in DOMAIN users \ {u} : users'[x] = users[x]]_vars

\* A member left an organization that was full: the organization is one
\* member short and still full.
LeftFullOrg ==
    /\ last.op = "leaveClub"
    /\ last.outcome = "true"
    /\ last.actor \notin MemberIds(orgs[last.org])
    /\ last.org \notin users[last.actor].joined
    /\ orgs[last.org].status = FULL
    /\ Len(orgs[last.org].members) < orgs[last.org].maxPlayers

\* C15 (requestJoin outcome precedence): NotFound when the organization does
\* not exist; else BadRequest when it is full, whether or not the caller is a
\* member or pending; else false when the caller is a member or pending; else
\* true, with exactly one pending entry of the requested role appended and the
\* organization added to the caller's pendingJoinRequests.
JoinPrecedence ==
    [][last'.op = "sendJoinRequest" =>
          \A o \in OrgIds, u \in Users, r \in RequestedRoles :
             \/ IF ~Exists(o)
                THEN last'.outcome = "NotFound" /\ StoreUnchanged
                ELSE IF orgs[o].status = FULL
                THEN last'.outcome = "BadRequest" /\ StoreUnchanged
                ELSE IF u \in MemberIds(orgs[o]) \/ u \in PendingIds(orgs[o])
                THEN last'.outcome = "false" /\ StoreUnchanged
                ELSE /\ last'.outcome = "true"
                     /\ last'.actor = u
                     /\ last'.org = o
                     /\ orgs'[o].pendingRequests =
                           Append(orgs[o].pendingRequests, [userId |-> u, role |-> r])
                     /\ orgs'[o].members = orgs[o].members
                     /\ users'[u].pending = users[u].pending \cup {o}
                     /\ \A x \in DOMAIN users \ {u} : users'[x] = users[x]
             \/ ~SendJoinRequest(o, u, r)]_vars

\* A join request was refused as BadRequest while every requesting user was a
\* member or pending in every existing organization, all of them full.
MemberRefusedWhenFull ==
    /\ last.op = "sendJoinRequest"
    /\ last.outcome = "BadRequest"
    /\ \A o \in OrgIds :
          Exists(o) =>
             /\ orgs[o].status = FULL
             /\ \A u \in Users : u \in MemberIds(orgs[o]) \cup PendingIds(orgs[o])

\* C16: acceptJoin and rejectJoin by an actor who is neither the admin nor a
\* captain of the organization return false and change nothing, whatever the
\* pending list and the capacity are.
AcceptRejectNeedAuthority ==
    [][last'.op \in {"acceptJoinRequest", "rejectJoinRequest"} =>
          \/ last'.outcome = "false" /\ StoreUnchanged
          \/ \A o \in OrgIds, r \in Users, a \in Users :
                (Exists(o) /\ orgs[o].admin # a /\ a \notin orgs[o].captains)
                => (~AcceptJoinRequest(o, r, a) /\ ~RejectJoinRequest(o, r, a))]_vars

\* An accept by a user without authority was answered false while every
\* existing organization had a pending request and room for one more member.
AcceptDenied ==
    /\ last.op = "acceptJoinRequest"
    /\ last.outcome = "false"
    /\ last.denied
    /\ \A o \in OrgIds :
          Exists(o) =>
             /\ orgs[o].pendingRequests # <<>>
             /\ orgs[o].status # FULL
             /\ Len(orgs[o].members) < orgs[o].maxPlayers

\* C17: a rejectJoin by the admin or a captain for a pending requester succeeds,
\* also on a full organization; it removes the requester's pending entry and
\* the organization from the requester's pendingJoinRequests, and leaves
\* members, captains, status, maxPlayers and the requester's joined set as they
\* were.
RejectFrame ==
    [][last'.op = "rejectJoinRequest" =>
          /\ \/ last'.outcome = "true"
             \/ \A o \in OrgIds, r \in Users, a \in Users :
                   (/\ Exists(o)
                    /\ (orgs[o].admin = a \/ a \in orgs[o].captains)
                    /\ r \in PendingIds(orgs[o]))
                   => ~RejectJoinRequest(o, r, a)
          /\ last'.outcome = "true" =>
                LET o == last'.org
                    r == last'.target
                IN /\ r \in PendingIds(orgs[o])
                   /\ orgs'[o].pendingRequests =
                         SelectSeq(orgs[o].pendingRequests, LAMBDA e : e.userId # r)
                   /\ users'[r].pending = users[r].pending \ {o}
                   /\ users'[r].joined = users[r].joined
                   /\ orgs'[o].members = orgs[o].members
                   /\ orgs'[o].captains = orgs[o].captains
                   /\ orgs'[o].status = orgs[o].status
                   /\ orgs'[o].maxPlayers = orgs[o].maxPlayers]_vars

\* A request was rejected on a full organization.
RejectedWhenFull ==
    /\ last.op = "rejectJoinRequest"
    /\ last.outcome = "true"
    /\ orgs[last.org].status = FULL
    /\ Len(orgs[last.org].members) >= orgs[last.org].maxPlayers
    /\ last.target \notin MemberIds(orgs[last.org])
    /\ last.org \notin users[last.target].pending

\* C18: updateOrganization by an actor who is neither the admin nor a captain
\* returns null and changes nothing; when the actor is a captain who is not the
\* admin, the organization's admin, captains, maxPlayers and status are the
\* same after the call as before it, whatever the request body holds.
CaptainPatchStripped ==
    [][last'.op = "updateClub" =>
          /\ \/ last'.outcome = "null" /\ StoreUnchanged
             \/ \A o \in OrgIds, u \in Users, updateData \in Patches :
                   (Exists(o) /\ orgs[o].admin # u /\ u \notin orgs[o].captains)
                   => ~UpdateClub(o, u, updateData)
          /\ last'.outcome = "updated" =>
                LET o == last'.org
                    u == last'.actor
                IN (orgs[o].admin # u /\ u \in orgs[o].captains)
                   => /\ orgs'[o].admin = orgs[o].admin
                      /\ orgs'[o].captains = orgs[o].captains
                      /\ orgs'[o].maxPlayers = orgs[o].maxPlayers
                      /\ orgs'[o].status = orgs[o].status]_vars

\* C19: changeSubscription for a user that does not exist returns null; for an
\* existing user it fails with BadRequest when the new role is not silver, gold
\* or premium, and succeeds without any change when the user already holds the
\* new role; none of the three changes a user or an organization.
SubscriptionValidation ==
    [][last'.op = "updateUserSubscription" =>
          \A u \in (1..NumSubscribers) \cup {NoUser}, newRole \in UserRoleEnum :
             \/ IF u \notin DOMAIN users
                THEN last'.outcome = "null" /\ StoreUnchanged
                ELSE IF newRole \notin PaidRoles
                THEN last'.outcome = "BadRequest" /\ StoreUnchanged
                ELSE IF users[u].role = newRole
                THEN last'.outcome = "unchanged" /\ StoreUnchanged
                ELSE last'.outcome \in {"BadRequest", "CastError", "updated"}
             \/ ~UpdateUserSubscription(u, newRole)]_vars

\* A user who administers an organization asked for the plan already held.
SamePlanRequested ==
    /\ last.op = "updateUserSubscription"
    /\ last.outcome = "unchanged"
    /\ \E u \in 1..NumSubscribers : users[u].owned # {} /\ users[u].role \in PaidRoles

\* C20 (downgrade guard A): a plan change to a lower organization limit by a
\* user who owns more organizations than the new limit fails with BadRequest
\* and changes no organization and no user; and no user ever owns more
\* organizations than the limit of the plan held.
DowngradeGuardA ==
    /\ [][last'.op = "updateUserSubscription" =>
             \/ last'.outcome = "BadRequest" /\ StoreUnchanged
             \/ \A u \in 1..NumSubscribers, newRole \in PaidRoles :
                   (/\ NewMaxClubs(newRole) < users[u].maxOrgs
                    /\ Cardinality(users[u].owned) > NewMaxClubs(newRole))
                   => ~UpdateUserSubscription(u, newRole)]_vars
    /\ [](\A u \in DOMAIN users :
             /\ Cardinality(users[u].owned) <= users[u].maxOrgs
             /\ \A o \in users[u].owned : Exists(o))

\* A downgrade was refused to a user who owns two organizations.
TooManyClubsRefused ==
    /\ last.op = "updateUserSubscription"
    /\ last.outcome = "BadRequest"
    /\ last.message = "Cannot downgrade: too many clubs"
    /\ \E u \in 1..NumSubscribers :
          /\ Cardinality(users[u].owned) = 2
          /\ users[u].maxOrgs > NewMaxClubs(SILVER)
          /\ \A o \in users[u].owned : Exists(o) /\ orgs[o].maxPlayers = users[u].maxPlayers

\* C21: a changeSubscription of an existing user to a paid plan other than the
\* one held, which passes both downgrade guards, succeeds; after it every
\* organization the user administers has maxPlayers equal to the new limit and
\* is full when it has at least that many members, the user's role, maxOrgs,
\* maxPlayers and cost are those of the new plan, and the organizations of
\* other admins are unchanged.
TierChangeApplied ==
    [][last'.op = "updateUserSubscription" =>
          \A u \in 1..NumSubscribers, newRole \in PaidRoles :
             (/\ users[u].role # newRole
              /\ ~TooManyClubs(u, newRole)
              /\ ~TooManyPlayers(u, newRole)
              /\ UpdateUserSubscription(u, newRole))
             => /\ last'.outcome = "updated"
                /\ \A o \in OrgIds :
                      IF o \in ClubsOf(u)
                      THEN /\ orgs'[o].maxPlayers = TierMaxPlayers(newRole)
                           /\ Len(orgs[o].members) >= TierMaxPlayers(newRole)
                                 => orgs'[o].status = FULL
                      ELSE orgs'[o] = orgs[o]
                /\ users'[u].role = newRole
                /\ users'[u].maxOrgs = TierMaxGroups(newRole)
                /\ users'[u].maxPlayers = TierMaxPlayers(newRole)
                /\ users'[u].cost = TierCost(newRole)]_vars

\* C22: to a caller who is neither the admin nor a captain of an existing
\* organization, updateClub, deleteClub, acceptJoinRequest and
\* rejectJoinRequest give the answer they give for an id that names no
\* organization: null for updateClub, false for the other three, whatever the
\* state of the organization and whoever the requester named.
NonDisclosure ==
    \A o \in OrgIds, missing \in OrgIds, u \in Users :
       (/\ Exists(o)
        /\ ~Exists(missing)
        /\ ~IsAdmin(orgs[o], u)
        /\ ~IsCaptain(orgs[o], u))
       => /\ UpdateOutcome(o, u) = Returns("null")
          /\ UpdateOutcome(o, u) = UpdateOutcome(missing, u)
          /\ DeleteOutcome(o, u) = Returns("false")
          /\ DeleteOutcome(o, u) = DeleteOutcome(missing, u)
          /\ \A r \in Users :
                /\ AcceptJoinOutcome(o, r, u) = Returns("false")
                /\ AcceptJoinOutcome(o, r, u) = AcceptJoinOutcome(missing, r, u)
                /\ RejectJoinOutcome(o, r, u) = Returns("false")
                /\ RejectJoinOutcome(o, r, u) = RejectJoinOutcome(missing, r, u)

\* An update was answered null to a caller who is neither admin nor captain of
\* an organization that has a pending request, while another id names no
\* organization.
OutsiderUpdateDenied ==
    /\ last.op = "updateClub"
    /\ last.outcome = "null"
    /\ last.denied
    /\ \E o \in OrgIds, missing \in OrgIds :
          /\ Exists(o)
          /\ ~Exists(missing)
          /\ orgs[o].pendingRequests # <<>>

\* C23: a request that ends in an error (BadRequest, Forbidden, NotFound, a
\* validation or cast error) or is answered false or null has written nothing:
\* users, organizations and the id counter are as before it.
FailFast ==
    [][last'.outcome \in {"BadRequest", "Forbidden", "NotFound", "ValidationError",
                          "CastError", "false", "null"}
          => StoreUnchanged]_vars

\* A change of plan by the admin of an organization ended in an error.
TierChangeFailed ==
    /\ last.op = "updateUserSubscription"
    /\ last.outcome = "CastError"
    /\ \E u \in 1..NumSubscribers : ClubsOf(u) # {}

OwnershipConsistency ==
    \A u \in DOMAIN users :
       \A o \in users[u].owned : Exists(o) /\ orgs[o].admin = u

\* C29: in every state reached by createClub, sendJoinRequest,
\* cancelJoinRequest, acceptJoinRequest, rejectJoinRequest and leaveClub, the
\* captains of an organization are among its members and its admin is not a
\* captain.
RoleSets ==
    \A o \in OrgIds :
       Exists(o) => /\ orgs[o].captains \subseteq MemberIds(orgs[o])
                    /\ orgs[o].admin \notin orgs[o].captains

\* C30: in every state reached by the membership requests, within each
\* organization no user is both a member and a requester, and no user has two
\* member records.
MemberOrRequester ==
    \A o \in OrgIds :
       Exists(o) =>
          /\ MemberIds(orgs[o]) \cap PendingIds(orgs[o]) = {}
          /\ \A i, j \in 1..Len(orgs[o].members) :
                orgs[o].members[i].userId = orgs[o].members[j].userId => i = j

\* C25: the capacity test of acceptJoinRequest is not repeated at its write.
\* The club update of an accept that passed its tests inserts the requester's
\* member record whatever the member count is by then, and the members of an
\* organization come to exceed maxPlayers by such a write only; with two
\* accepts under way for two requesters and one open slot, both insert.
AcceptNotAtomic ==
    [][/\ \A p \in Callers :
             (/\ flight.calls[p].op = "acceptJoinRequest"
              /\ flight.calls[p].pc = "club"
              /\ Exists(flight.calls[p].org)
              /\ AcceptWriteClub(p))
             => LET o == flight.calls[p].org
                IN /\ Len(orgs'[o].members) = Len(orgs[o].members) + 1
                   /\ flight.calls[p].target \in MemberIds(orgs'[o])
       /\ \A o \in OrgIds :
             (/\ Exists(o)
              /\ Len(orgs[o].members) <= orgs[o].maxPlayers
              /\ orgs'[o] # NoOrg
              /\ Len(orgs'[o].members) > orgs'[o].maxPlayers)
             => \E p \in Callers : AcceptWriteClub(p)]_vars

\* Two accepts for two requesters have both completed and the organization
\* has more members than maxPlayers.
MembersOverrun ==
    /\ flight = NoCalls
    /\ last.op = "acceptJoinRequest"
    /\ last.outcome = "true"
    /\ \E o \in OrgIds :
          /\ Exists(o)
          /\ Len(orgs[o].members) > orgs[o].maxPlayers
          /\ Cardinality(MemberIds(orgs[o])) = Len(orgs[o].members)
          /\ \A u \in MemberIds(orgs[o]) : o \in users[u].joined

\* C26: pendingRequests of an organization holds at most one entry for a
\* user, in every state, also when two sendJoinRequest calls of one user for
\* one organization have both passed their tests before either writes.
PendingUnique ==
    \A o \in OrgIds :
       Exists(o) =>
          \A i, j \in 1..Len(orgs[o].pendingRequests) :
             orgs[o].pendingRequests[i].userId = orgs[o].pendingRequests[j].userId => i = j

AdminNeverChanges ==
    [][\A o \in OrgIds :
          (Exists(o) /\ orgs'[o] # NoOrg) => orgs'[o].admin = orgs[o].admin]_vars

\* C32: a change of plan gives the same result whether the organizations of
\* the user are clubs or groups: in every state reached by create, request,
\* cancel, accept, reject, leave, delete and changes of plan, the answer of
\* updateUserSubscription for an admin of groups is its answer for an admin of
\* clubs in the corresponding state.
TierChangeSameForGroups ==
    \A u \in (1..NumSubscribers) \cup {NoUser}, newRole \in UserRoleEnum :
       GroupSubscriptionOutcome(u, newRole) = SubscriptionOutcome(u, newRole)

\* C33: in every state reached by createClub, leaveClub, sendJoinRequest,
\* cancelJoinRequest, acceptJoinRequest, rejectJoinRequest and changes of
\* plan, the admin of an existing organization has a record in its members.
AdminIsMember ==
    \A o \in OrgIds : Exists(o) => IsMember(orgs[o], orgs[o].admin)

\* A member has left an organization and its admin is the one member left.
OnlyAdminLeft ==
    /\ last.op = "leaveClub"
    /\ last.outcome = "true"
    /\ Exists(last.org)
    /\ MemberIds(orgs[last.org]) = {orgs[last.org].admin}

\* C34: in every state reached by createClub, sendJoinRequest,
\* cancelJoinRequest, acceptJoinRequest, rejectJoinRequest, leaveClub and
\* changes of plan, an organization with at least maxPlayers members is full.
FullAtCapacity ==
    \A o \in OrgIds :
       (Exists(o) /\ Len(orgs[o].members) >= orgs[o].maxPlayers) => orgs[o].status = FULL

\* An accept has brought an organization to maxPlayers members.
AcceptedLastSlot ==
    /\ last.op = "acceptJoinRequest"
    /\ last.outcome = "true"
    /\ Exists(last.org)
    /\ Len(orgs[last.org].members) = orgs[last.org].maxPlayers
    /\ last.target \in MemberIds(orgs[last.org])

\* C35: after every request, for every user and every existing organization,
\* the organization is in the user's joined set exactly when the user has a
\* record in the organization's members.
MembershipMirror ==
    \A u \in DOMAIN users, o \in OrgIds :
       Exists(o) => (o \in users[u].joined <=> IsMember(orgs[o], u))

\* C37: when the calls of a sendJoinRequest and of a cancelJoinRequest,
\* rejectJoinRequest or acceptJoinRequest for the same organization and user
\* have all completed, the organization is in the user's pending set exactly
\* when the user has an entry in the organization's pendingRequests.
PendingMirrorAfterRace ==
    flight = NoCalls =>
       \A u \in DOMAIN users, o \in OrgIds :
          Exists(o) => (o \in users[u].pending <=> HasPendingRequest(orgs[o], u))

\* C38: when two acceptJoinRequest calls for the same pending request have
\* both completed, the requester has exactly one record in members.
OneRecordAfterRace ==
    flight = NoCalls =>
       \A o \in OrgIds :
          Exists(o) =>
             \A i, j \in 1..Len(orgs[o].members) :
                orgs[o].members[i].userId = orgs[o].members[j].userId => i = j

\* C39: when the calls of a deleteClub and of a sendJoinRequest or
\* acceptJoinRequest on the same organization have all completed and the
\* organization is deleted, no user has its id in the pending set or in the
\* joined set.
NoReferenceAfterRace ==
    flight = NoCalls =>
       \A o \in OrgIds :
          (o < nextId /\ ~Exists(o)) =>
             \A u \in DOMAIN users : o \notin users[u].pending /\ o \notin users[u].joined

QuotaAfterRace ==
    \A u \in DOMAIN users :
       users[u].maxOrgs > 0 => ClubCount(u) <= users[u].maxOrgs

====
